---- MODULE Spec2Model ----
(***************************************************************************)
(* Request dispatch and token lifecycle of the Meta Ads MCP server.        *)
(*                                                                         *)
(* The repository holds three variants of the server:                      *)
(*   "server.js" - connector-mediated (Pipedream) server, class            *)
(*                 MetaAdsMCPServer, src/meta-mcp-files/.../src/server.js  *)
(*   "part_000"  - the "FIXED VERSION" of the same class with mock tool    *)
(*                 executors and the auth check commented out              *)
(*   "part_001"  - the direct-OAuth server with the in-memory token store  *)
(*                 tokensByUser and the /auth/meta/callback route          *)
(* A behaviour runs one of them (variable server, fixed by Init).          *)
(*                                                                         *)
(* JavaScript values are modelled as follows: an object is a record, a     *)
(* missing member is a missing field (tested with DOMAIN), the value       *)
(* undefined of an object-valued variable is the record Undefined, the     *)
(* value undefined of a string-valued variable is the string "undefined"   *)
(* (which is also what a template literal prints for it), and a string     *)
(* built by concatenation or interpolation is the sequence of its parts.   *)
(* A handler runs atomically up to its next await of a network call; a     *)
(* handler suspended at such a call is an element of inflight.  The        *)
(* clients are one MCP client, which sends its next request when it has    *)
(* the response (or the failure) of the previous one, and one browser,     *)
(* which follows one OAuth redirect at a time; the two run concurrently.   *)
(* last is the exchange that has just ended, until its client has taken    *)
(* the response.  seen is a response to initialize or tools/list that the  *)
(* MCP client has kept to compare later ones with.  report is a call of    *)
(* calculateSummary, its arguments and its return value; the requests of   *)
(* Spec reach calculateSummary through the report tool, and SpecSummary     *)
(* calls it directly on every input within the bounds.                     *)
(***************************************************************************)
EXTENDS Integers, Sequences, FiniteSets, TLC

VARIABLES server, now, tokensByUser, inflight, last, seen, report

vars == <<server, now, tokensByUser, inflight, last, seen, report>>

\* ---------------------------------------------------------------- bounds
MaxTicks == 1        \* the clock advances at most this many minutes
MaxRows == 2         \* the rows of an insights answer given to calculateSummary

\* ------------------------------------------------------------ JS values
Undefined == [undefined |-> TRUE]
IsUndefined(v) == "undefined" \in DOMAIN v
Has(obj, member) == member \in DOMAIN obj

Servers == {"server.js", "part_000", "part_001"}
Users == {"default", "u1"}
Ids == {"r1", "r2"}
\* the access tokens the platform issues (credentials also differ by expiresAt)
AccessTokens == {"tokA"}
\* expires_in values (seconds) the platform's token endpoint returns
ExpiresIn == {30, 120}

\* Date.now(): the clock in milliseconds; one tick of the model is a minute
DateNow(ticks) == ticks * 60000

\* --------------------------------------------------------- tool registry
\* this.tools (server.js: an object keyed by name, listed by Object.values in
\* insertion order; part_000: an array) and the array tools of part_001
tools(srv) ==
  IF srv = "part_001"
  THEN << [name |-> "meta_ads_get", description |-> "Get campaign/adset/ad by ID"],
          [name |-> "meta_ads_query", description |-> "Query campaigns/adsets/ads"] >>
  ELSE << [name |-> "meta_ads_get",
           description |-> "Get Meta Ads campaign, ad set, or ad by ID"],
          [name |-> "meta_ads_query",
           description |-> "Query Meta Ads campaigns with filters"],
          [name |-> "meta_ads_report",
           description |-> "Generate Meta Ads performance report with insights"] >>

RegisteredNames(srv) == {tools(srv)[i].name : i \in 1..Len(tools(srv))}

\* ----------------------------------------------------------- requests
\* the tool names a client may send: the declared ones and one that is not
CallNames == {"meta_ads_get", "meta_ads_query", "meta_ads_report", "bogus_tool"}

ArgsFor(name) ==
  CASE name = "meta_ads_get" -> [resource_type |-> "campaign", id |-> "42"]
    [] name = "meta_ads_query" -> [resource_type |-> "campaigns"]
    [] OTHER -> [date_preset |-> "last_30d"]

ParamsSet ==
  {Undefined} \cup
  UNION {{[name |-> n, arguments |-> a] : a \in {Undefined, ArgsFor(n)}} : n \in CallNames}

\* request headers: none, x-user-id: u1, or authorization: Bearer u1
HeaderSet ==
  { [none |-> TRUE],
    [xUserId |-> "u1"],
    [authorization |-> <<"Bearer ", "u1">>] }

Methods == {"initialize", "tools/list", "notifications/initialized", "tools/call",
            "resources/list"}

\* req.body, the JSON-RPC envelope; a client sends params only with tools/call
Bodies ==
  {b \in [method : Methods, id : Ids, params : ParamsSet] :
      b.method # "tools/call" => IsUndefined(b.params)}

\* an HTTP request to POST /mcp
Requests == [body : Bodies, headers : HeaderSet]

\* String.prototype.replace('Bearer ', ''): removes the first occurrence
ReplaceBearer(parts) ==
  IF Len(parts) > 0 /\ parts[1] = "Bearer " THEN Tail(parts) ELSE parts

Join(parts) == IF Len(parts) = 1 THEN parts[1] ELSE "undefined"

\* const userId = req.headers['x-user-id'] || req.headers['authorization']?.replace(...)
UserIdOf(headers) ==
  IF Has(headers, "xUserId") THEN headers.xUserId
  ELSE IF Has(headers, "authorization") THEN Join(ReplaceBearer(headers.authorization))
  ELSE "undefined"

\* ----------------------------------------------------------- responses
JsonResponse(status, body) == [transport |-> "json", status |-> status, body |-> body]
\* res.status(200).end(): a status line and no body
EndResponse(status) == [transport |-> "end", status |-> status]
\* res.send(html)
HtmlResponse(status) == [transport |-> "html", status |-> status]
\* the handler's promise rejected before it wrote a response
NoResponse == [transport |-> "none", status |-> 0]

ResultEnvelope(id, result) == [jsonrpc |-> "2.0", id |-> id, result |-> result]
ErrorEnvelope(id, code, message) ==
  [jsonrpc |-> "2.0", id |-> id, error |-> [code |-> code, message |-> message]]

TextContent(text) == [content |-> << [type |-> "text", text |-> text] >>]
\* JSON.stringify(value, null, 2)
Stringify(value) == [json |-> value]

\* ------------------------------------------------------ JS numbers
\* a JS number as a reduced fraction, or NaN
RECURSIVE gcd(_, _)
gcd(a, b) == IF b = 0 THEN a ELSE gcd(b, a % b)
Abs(n) == IF n < 0 THEN -n ELSE n
NaN == [nan |-> TRUE, num |-> 0, den |-> 1]
Frac(n, d) ==
  LET g == gcd(Abs(n), d) IN
  IF g = 0 THEN [nan |-> FALSE, num |-> 0, den |-> 1]
  ELSE [nan |-> FALSE, num |-> n \div g, den |-> d \div g]
Num(n) == Frac(n, 1)
Plus(x, y) ==
  IF x.nan \/ y.nan THEN NaN
  ELSE Frac(x.num * y.den + y.num * x.den, x.den * y.den)
\* x / n for an integer n > 0
DivideBy(x, n) == IF x.nan THEN NaN ELSE Frac(x.num, x.den * n)

\* a cell of an insights row: a number [n |-> 3], or a string, given by what
\* parseFloat reads from it: [s |-> "12", parsed |-> Num(12)], [s |-> "abc", parsed |-> NaN]
\* parseFloat(item[metric] || 0): a missing member, 0 and "" are falsy and read as 0
parseFloatOrZero(item, metric) ==
  IF ~Has(item, metric) THEN Num(0)
  ELSE LET cell == item[metric] IN
       IF Has(cell, "n") THEN Num(cell.n)
       ELSE IF cell.s = "" THEN Num(0) ELSE cell.parsed

RECURSIVE reduceSum(_, _, _)
\* data.reduce((sum, item) => sum + parseFloat(item[metric] || 0), 0)
reduceSum(data, metric, sum) ==
  IF data = <<>> THEN sum
  ELSE reduceSum(Tail(data), metric, Plus(sum, parseFloatOrZero(Head(data), metric)))

RateMetrics == {"ctr", "cpc", "cpm"}

\* calculateSummary(data, metrics): an object with one member per requested metric
calculateSummary(data, metrics) ==
  IF IsUndefined(data) \/ Len(data.rows) = 0 THEN [m \in {} |-> NaN]
  ELSE [m \in {metrics[i] : i \in 1..Len(metrics)} |->
          IF m \in RateMetrics
          THEN DivideBy(reduceSum(data.rows, m, Num(0)), Len(data.rows))
          ELSE reduceSum(data.rows, m, Num(0))]

DefaultMetrics == <<"impressions", "clicks", "spend", "ctr", "cpc">>

\* --------------------------------------------------------- environment
\* the JSON bodies the upstream API answers a successful call with; data.data is
\* wrapped as [rows |-> ...] when present
Payloads ==
  { [data |-> [rows |-> <<>>]],
    [data |-> [rows |-> << [ctr |-> [n |-> 2], spend |-> [n |-> 10]],
                           [ctr |-> [n |-> 4], spend |-> [n |-> 20]] >>]] }

\* how a network call ends: a 2xx response, a non-2xx response, a network error
Outcomes == {"ok", "non2xx", "neterr"}

\* an outbound call: where to, the access token it carries, when it was sent,
\* and how it ended
Call(to, token, at) == [to |-> to, token |-> token, at |-> at, outcome |-> "pending"]

\* ---------------------------------------------------- exchange records
\* a handler suspended at a network call: its locals (req is the destructured
\* req.body, userId, token), the calls it has issued, when it received the
\* request, and the user identifier the request's headers carry (caller)
Suspended(pc, request, userId, token, calls, at) ==
  [kind |-> "mcp", pc |-> pc, req |-> request.body, caller |-> UserIdOf(request.headers),
   userId |-> userId, token |-> token, calls |-> calls, at |-> at]

\* the handler h when its pending call has ended with outcome
Returned(h, outcome) == [h EXCEPT !.calls[Len(h.calls)].outcome = outcome]

\* a finished /mcp exchange: the same, and the response.
\* auth: "none" (no authentication step ran), "ok", "failed"
Finished(h, auth, resp) ==
  [kind |-> "mcp", req |-> h.req, caller |-> h.caller, userId |-> h.userId,
   token |-> h.token, calls |-> h.calls, at |-> h.at, auth |-> auth, resp |-> resp]

\* ------------------------------------------------ shared step shapes
\* no exchange has just ended: the clients have taken every response
Taken == last.kind = "none"

\* the handlers of the given kind suspended at a network call
InFlight(kind) == {h \in inflight : h.kind = kind}

\* the handler writes its response: the exchange is over
Reply(fin) ==
  /\ Taken
  /\ InFlight("mcp") = {}
  /\ last' = fin
  /\ UNCHANGED <<server, now, tokensByUser, inflight, seen, report>>

\* the handler awaits a network call
Suspend(h) ==
  /\ Taken
  /\ InFlight(h.kind) = {}
  /\ inflight' = inflight \cup {h}
  /\ UNCHANGED <<server, now, tokensByUser, last, seen, report>>

\* a suspended handler h resumes and awaits its next network call as h2
Continue(h, h2) ==
  /\ Taken
  /\ inflight' = (inflight \ {h}) \cup {h2}
  /\ UNCHANGED <<server, now, tokensByUser, last, seen, report>>

\* a suspended handler h resumes and writes its response
ResumeReply(h, fin) ==
  /\ Taken
  /\ inflight' = inflight \ {h}
  /\ last' = fin
  /\ UNCHANGED <<server, now, tokensByUser, seen, report>>

\* the client takes the response of the exchange that has just ended
TakeResponse ==
  /\ ~Taken
  /\ last' = [kind |-> "none"]
  /\ UNCHANGED <<server, now, tokensByUser, inflight, seen, report>>

\* the methods the client compares the responses of
Repeatable == {"initialize", "tools/list"}

\* the request id the client repeats; its other id marks the requests it
\* sends in between
RepeatedId == "r1"

\* the client takes the response to an initialize or a tools/list it will
\* repeat and keeps it (it keeps one response; which one is its choice)
KeepResponse ==
  /\ last.kind = "mcp" /\ last.req.method \in Repeatable
  /\ last.req.id = RepeatedId
  /\ seen.kind = "none"
  /\ seen' = [kind |-> "mcp", req |-> last.req, resp |-> last.resp]
  /\ last' = [kind |-> "none"]
  /\ UNCHANGED <<server, now, tokensByUser, inflight, report>>

\* ------------------------------------ server.js: MetaAdsMCPServer
\* mutant of initializeResult: the result carries the time of the request, as
\* the tool results do
initializeResult_stamped(srv) ==
  [protocolVersion |-> "2024-11-05",
   capabilities |-> [tools |-> [listChanged |-> TRUE]],
   serverInfo |-> [name |-> "Meta Ads Business MCP Server", version |-> "1.0.0"],
   timestamp |-> DateNow(now)]

\* the result of initialize
initializeResult(srv) ==
  IF srv = "part_001"
  THEN [protocolVersion |-> "2024-11-05",
        capabilities |-> [tools |-> <<>>],      \* tools: {}
        serverInfo |-> [name |-> "Meta Ads MCP", version |-> "1.0.0"]]
  ELSE [protocolVersion |-> "2024-11-05",
        capabilities |-> [tools |-> [listChanged |-> TRUE]],
        serverInfo |-> [name |-> "Meta Ads Business MCP Server", version |-> "1.0.0"]]

\* getAuthURL(userId) of server.js: the return statement ends at its line break
\* (automatic semicolon insertion), so the template literal on the next line is
\* never evaluated and the method returns undefined
getAuthURL(userId) == "undefined"

\* the text of the authentication prompt; ${this.getAuthURL(userId)} is its second part
authPromptText(userId) ==
  [prompt |-> << "Meta Ads authentication required! Connect your Meta Ads account: ",
                 getAuthURL(userId),
                 " After connecting, please try your request again." >>]

authPrompt(req, userId) ==
  JsonResponse(200, ResultEnvelope(req.id, TextContent(authPromptText(userId))))

\* the catch block of handleMCPRequest
internalError(req, message) ==
  JsonResponse(500, ErrorEnvelope(req.id, -32603, <<"Internal error: ", message>>))

\* mutant of methodNotFound: the code of another JSON-RPC error (invalid request)
methodNotFound_invalidRequest(req) ==
  JsonResponse(400, ErrorEnvelope(req.id, -32600, <<"Method not found">>))

\* the fall-through of handleMCPRequest (server.js)
methodNotFound(req) ==
  JsonResponse(400, ErrorEnvelope(req.id, -32601, <<"Method not found">>))

\* the tool result wrapped as JSON text in a successful envelope
toolResponse(req, result) ==
  JsonResponse(200, ResultEnvelope(req.id, TextContent(Stringify(result))))

\* the catch block of executeTool
errorResult(message, t) == [error |-> TRUE, message |-> message, timestamp |-> t]

\* the names executeTool's switch has a case for
SwitchNames == {"meta_ads_get", "meta_ads_query", "meta_ads_report"}

\* the connector action each tool posts to
actionOf(toolName) ==
  CASE toolName = "meta_ads_get" -> "pipedream/actions/get"
    [] toolName = "meta_ads_query" -> "pipedream/actions/list"
    [] OTHER -> "pipedream/actions/get_insights"

\* the message of the Error a tool throws on a non-2xx answer or a failed fetch
upstreamFailure(toolName, args, outcome) ==
  IF outcome = "neterr" THEN <<"fetch failed">>
  ELSE CASE toolName = "meta_ads_get" ->
              <<"Failed to get ", args.resource_type, ": ", "statusText">>
         [] toolName = "meta_ads_query" ->
              <<"Failed to query ", args.resource_type, ": ", "statusText">>
         [] OTHER -> <<"Failed to generate report: ", "statusText">>

\* what getMetaAdsResource, queryMetaAds and generateMetaAdsReport return
toolResult(toolName, args, payload, t) ==
  CASE toolName = "meta_ads_get" ->
         [service |-> "Meta Ads", operation |-> "get",
          resource_type |-> args.resource_type, data |-> payload, timestamp |-> t]
    [] toolName = "meta_ads_query" ->
         [service |-> "Meta Ads", operation |-> "query",
          resource_type |-> args.resource_type,
          count |-> Len(payload.data.rows), data |-> payload, timestamp |-> t]
    [] OTHER ->
         [service |-> "Meta Ads", operation |-> "report",
          period |-> IF Has(args, "date_preset") THEN args.date_preset ELSE "last_30d",
          summary |-> calculateSummary(payload.data,
                        IF Has(args, "metrics") THEN args.metrics ELSE DefaultMetrics),
          detailed_data |-> payload.data, timestamp |-> t]

\* mutant of hasUserId: the guard if (!userId) return false is missing
hasUserId_unguarded(userId) == TRUE

\* checkUserAuth: if (!userId) return false; otherwise it asks the connector
hasUserId(userId) == userId # "undefined" /\ userId # ""

\* handleMCPRequest of server.js, from the request to its response or to the
\* fetch of checkUserAuth
handleMCPRequest(request) ==
  /\ server = "server.js"
  /\ LET req == request.body        \* const { method, params, id } = req.body
         userId == UserIdOf(request.headers)
         t == DateNow(now)
         entry == Suspended("entry", request, userId, Undefined, <<>>, t)
         fin(auth, resp) == Finished(entry, auth, resp)
     IN
     CASE req.method = "initialize" ->
            Reply(fin("none", JsonResponse(200,
                    ResultEnvelope(req.id, initializeResult(server)))))
       [] req.method = "tools/list" ->
            Reply(fin("none", JsonResponse(200,
                    ResultEnvelope(req.id, [tools |-> tools(server)]))))
       [] req.method = "tools/call" ->
            IF IsUndefined(req.params)
            THEN \* const { name, arguments: args } = params throws a TypeError
                 Reply(fin("none", internalError(req,
                    "Cannot destructure property 'name' of 'params' as it is undefined.")))
            ELSE IF ~hasUserId(userId)
            THEN Reply(fin("failed", authPrompt(req, userId)))
            ELSE Suspend(Suspended("checkUserAuth", request, userId, Undefined,
                            <<Call("pipedream/accounts", Undefined, t)>>, t))
       [] OTHER -> Reply(fin("none", methodNotFound(req)))

\* the fetch of checkUserAuth returns: response.ok, or false on a non-2xx
\* response and on a network error; then executeTool runs up to its fetch
checkUserAuth(h, outcome) ==
  /\ server = "server.js"
  /\ h \in inflight /\ h.kind = "mcp" /\ h.pc = "checkUserAuth"
  /\ LET req == h.req
         toolName == req.params.name
         args == req.params.arguments
         t == DateNow(now)
         fin(auth, resp) == Finished(Returned(h, outcome), auth, resp)
     IN
     IF outcome # "ok"
     THEN ResumeReply(h, fin("failed", authPrompt(req, h.userId)))
     ELSE IF toolName \notin SwitchNames
     THEN ResumeReply(h, fin("ok", toolResponse(req,
                          errorResult(<<"Unknown tool: ", toolName>>, t))))
     ELSE IF IsUndefined(args)
     THEN \* const { ... } = args throws a TypeError inside executeTool's try
          ResumeReply(h, fin("ok", toolResponse(req,
                          errorResult(<<"Cannot destructure property of 'args' ",
                                        "as it is undefined.">>, t))))
     ELSE Continue(h, [Returned(h, outcome) EXCEPT
                          !.pc = "executeTool",
                          !.calls = Append(@, Call(actionOf(toolName), Undefined, t))])

\* the fetch of a tool returns inside executeTool
executeTool(h, outcome, payload) ==
  /\ server = "server.js"
  /\ h \in inflight /\ h.kind = "mcp" /\ h.pc = "executeTool"
  /\ LET req == h.req
         toolName == req.params.name
         args == req.params.arguments
         t == DateNow(now)
         result == IF outcome = "ok" THEN toolResult(toolName, args, payload, t)
                   ELSE errorResult(upstreamFailure(toolName, args, outcome), t)
     IN ResumeReply(h, Finished(Returned(h, outcome), "ok", toolResponse(req, result)))

\* ------------------------- part_000: MetaAdsMCPServer, "FIXED VERSION"
\* the fall-through of handleMCPRequest (part_000) names the method
methodNotFound_fixed(req) ==
  JsonResponse(400, ErrorEnvelope(req.id, -32601, <<"Method not found", ": ", req.method>>))

errorResult_fixed(message, t) ==
  [error |-> TRUE, message |-> message, timestamp |-> t,
   note |-> "This is a test response - Pipedream integration not fully configured"]

\* the mock executors of part_000: no network call
mockResult(toolName, args, t) ==
  CASE toolName = "meta_ads_get" ->
         [service |-> "Meta Ads", operation |-> "get",
          resource_type |-> args.resource_type, id |-> args.id,
          data |-> [id |-> args.id, status |-> "ACTIVE"], timestamp |-> t,
          note |-> "Mock data - replace with actual Pipedream call"]
    [] toolName = "meta_ads_query" ->
         [service |-> "Meta Ads", operation |-> "query",
          resource_type |-> args.resource_type,
          data |-> "5 sample rows", timestamp |-> t,
          note |-> "Mock data - replace with actual Pipedream call"]
    [] OTHER ->
         [service |-> "Meta Ads", operation |-> "report",
          period |-> IF Has(args, "date_preset") THEN args.date_preset ELSE "last_30d",
          summary |-> "fixed sample summary", timestamp |-> t,
          note |-> "Mock data - replace with actual Pipedream call"]

\* executeTool of part_000
executeTool_fixed(toolName, args, t) ==
  IF toolName \notin SwitchNames
  THEN errorResult_fixed(<<"Unknown tool: ", toolName>>, t)
  ELSE IF IsUndefined(args)
  THEN errorResult_fixed(<<"Cannot destructure property of 'args' ",
                           "as it is undefined.">>, t)
  ELSE mockResult(toolName, args, t)

\* handleMCPRequest of part_000: the whole handler (it awaits no network call;
\* the call of checkUserAuth is commented out)
handleMCPRequest_fixed(request) ==
  /\ server = "part_000"
  /\ LET req == request.body
         userId == UserIdOf(request.headers)
         t == DateNow(now)
         entry == Suspended("entry", request, userId, Undefined, <<>>, t)
         fin(resp) == Finished(entry, "none", resp)
     IN
     CASE req.method = "initialize" ->
            Reply(fin(JsonResponse(200, ResultEnvelope(req.id, initializeResult(server)))))
       [] req.method = "tools/list" ->
            Reply(fin(JsonResponse(200, ResultEnvelope(req.id, [tools |-> tools(server)]))))
       [] req.method = "notifications/initialized" ->
            Reply(fin(EndResponse(200)))
       [] req.method = "tools/call" ->
            IF IsUndefined(req.params)
            THEN Reply(fin(internalError(req,
                    "Cannot destructure property 'name' of 'params' as it is undefined.")))
            ELSE Reply(fin(toolResponse(req,
                    executeTool_fixed(req.params.name, req.params.arguments, t))))
       [] OTHER -> Reply(fin(methodNotFound_fixed(req)))

\* ------------------------------------- part_001: the direct-OAuth server
\* what the client sees when the async route handler's promise rejects: the
\* handler has no try/catch. Under Express 4 the rejection is unhandled and no
\* response is written; under Express 5 the default error handler answers 500
\* with an HTML page.
Unhandled == {NoResponse, HtmlResponse(500)}

\* the authentication prompt of part_001:
\* `Authenticate here: ${process.env.META_REDIRECT_URI}?userId=${userId}`
authPrompt_oauth(req, userId) ==
  JsonResponse(200, ResultEnvelope(req.id, TextContent(
    [prompt |-> <<"Authenticate here: ", "https://META_REDIRECT_URI", "?userId=", userId>>])))

\* the names app.post('/mcp') has a branch for
BranchNames == {"meta_ads_get", "meta_ads_query"}

\* the JSON body the Graph API answers a successful call of the tool with
GraphPayloads(toolName) ==
  IF toolName = "meta_ads_get"
  THEN {[id |-> "42", name |-> "Spring sale", status |-> "ACTIVE"]}
  ELSE {[data |-> [rows |-> << [id |-> "42"] >>]]}

graphOf(toolName) ==
  IF toolName = "meta_ads_get" THEN "graph/object" ELSE "graph/me"

\* mutant of mcpPost: a token store that exchanges the stored token for a new
\* one on every tools/call, whatever its expiresAt, before it looks the token up
mcpPost_refreshing(request) ==
  /\ server = "part_001"
  /\ Taken
  /\ InFlight("mcp") = {}
  /\ LET req == request.body
         userId == "default"
         t == DateNow(now)
         stored == tokensByUser[userId]
         refresh == req.method = "tools/call" /\ ~IsUndefined(stored)
         token == IF refresh THEN [stored EXCEPT !.expiresAt = t + 120000] ELSE stored
         issued == IF refresh
                   THEN <<[Call("graph/oauth/access_token", stored, t)
                             EXCEPT !.outcome = "ok"]>>
                   ELSE <<>>
         entry == Suspended("entry", request, userId, stored, issued, t)
         fin(auth, resp) == Finished(entry, auth, resp)
         notFound == JsonResponse(400, ErrorEnvelope(req.id, -32601, <<"Method not found">>))
         reply(f) == last' = f /\ inflight' = inflight
     IN
     /\ tokensByUser' = [tokensByUser EXCEPT ![userId] = token]
     /\ UNCHANGED <<server, now, seen, report>>
     /\ CASE req.method = "initialize" ->
              reply(fin("none", JsonResponse(200,
                      ResultEnvelope(req.id, initializeResult(server)))))
         [] req.method = "tools/list" ->
              reply(fin("none", JsonResponse(200,
                      ResultEnvelope(req.id, [tools |-> tools(server)]))))
         [] req.method = "tools/call" ->
              IF IsUndefined(req.params)
              THEN \E resp \in Unhandled : reply(fin("none", resp))
              ELSE IF IsUndefined(token)
              THEN reply(fin("failed", authPrompt_oauth(req, userId)))
              ELSE IF req.params.name \notin BranchNames
              THEN reply(fin("ok", notFound))
              ELSE IF IsUndefined(req.params.arguments)
              THEN \E resp \in Unhandled : reply(fin("ok", resp))
              ELSE /\ last' = last
                   /\ inflight' = inflight \cup
                        {[entry EXCEPT !.pc = "axios.get",
                            !.calls = Append(@, Call(graphOf(req.params.name), token, t))]}
         [] OTHER -> reply(fin("none", notFound))

\* app.post('/mcp') of part_001, from the request to its response or to the
\* axios.get of a tool
mcpPost(request) ==
  /\ server = "part_001"
  /\ LET req == request.body        \* const { method, id, params } = req.body
         userId == "default"        \* const userId = "default"; // later support multiple
         token == tokensByUser[userId]
         t == DateNow(now)
         entry == Suspended("entry", request, userId, token, <<>>, t)
         fin(auth, resp) == Finished(entry, auth, resp)
         notFound == JsonResponse(400, ErrorEnvelope(req.id, -32601, <<"Method not found">>))
     IN
     CASE req.method = "initialize" ->
            Reply(fin("none", JsonResponse(200,
                    ResultEnvelope(req.id, initializeResult(server)))))
       [] req.method = "tools/list" ->
            Reply(fin("none", JsonResponse(200,
                    ResultEnvelope(req.id, [tools |-> tools(server)]))))
       [] req.method = "tools/call" ->
            IF IsUndefined(req.params)
            THEN \* const { name, arguments: args } = params throws
                 \E resp \in Unhandled : Reply(fin("none", resp))
            ELSE IF IsUndefined(token)
            THEN Reply(fin("failed", authPrompt_oauth(req, userId)))
            ELSE IF req.params.name \notin BranchNames
            THEN Reply(fin("ok", notFound))
            ELSE IF IsUndefined(req.params.arguments)
            THEN \* args.id, args.resource_type throw a TypeError
                 \E resp \in Unhandled : Reply(fin("ok", resp))
            ELSE Suspend(Suspended("axios.get", request, userId, token,
                            <<Call(graphOf(req.params.name), token, t)>>, t))
       [] OTHER -> Reply(fin("none", notFound))

\* the axios.get of a tool returns; axios rejects on a non-2xx answer and on a
\* network error
mcpPostReturn(h, outcome, payload) ==
  /\ server = "part_001"
  /\ h \in inflight /\ h.kind = "mcp" /\ h.pc = "axios.get"
  /\ payload \in GraphPayloads(h.req.params.name)
  /\ LET fin(resp) == Finished(Returned(h, outcome), "ok", resp) IN
     IF outcome = "ok"
     THEN ResumeReply(h, fin(JsonResponse(200,
             ResultEnvelope(h.req.id, TextContent(Stringify(payload))))))
     ELSE \E resp \in Unhandled : ResumeReply(h, fin(resp))

\* the query string of GET /auth/meta/callback
CallbackQueries == [code : {"undefined", "c1"}, state : {"undefined", "u1"}]

\* String(x || fallback)
StringOr(x, fallback) == IF x = "undefined" \/ x = "" THEN fallback ELSE x

\* app.get('/auth/meta/callback') up to its axios.get of the token endpoint
authCallback(q) ==
  /\ server = "part_001"
  /\ Suspend([kind |-> "callback", pc |-> "exchange",
              code |-> StringOr(q.code, ""), state |-> StringOr(q.state, "default")])

\* the same when each user has a browser of their own, which follows one
\* OAuth redirect at a time: the handlers of the callbacks of different users
\* are suspended at their axios.get together
authCallbackConcurrent(q) ==
  /\ server = "part_001"
  /\ Taken
  /\ \A h \in InFlight("callback") : h.state # StringOr(q.state, "default")
  /\ inflight' = inflight \cup
        {[kind |-> "callback", pc |-> "exchange",
          code |-> StringOr(q.code, ""), state |-> StringOr(q.state, "default")]}
  /\ UNCHANGED <<server, now, tokensByUser, last, seen, report>>

\* mutant of authCallbackReturn: the credential is stored under "default"
\* whatever state says, the key app.post('/mcp') reads
authCallbackReturn_default(h, outcome, access_token, expires_in) ==
  /\ server = "part_001"
  /\ h \in inflight /\ h.kind = "callback"
  /\ h.code = "" => outcome # "ok"
  /\ Taken
  /\ inflight' = inflight \ {h}
  /\ IF outcome = "ok"
     THEN LET cred == [accessToken |-> access_token,
                       expiresAt |-> DateNow(now) + (expires_in * 1000)] IN
          /\ tokensByUser' = [tokensByUser EXCEPT !["default"] = cred]
          /\ last' = [kind |-> "callback", state |-> h.state, code |-> h.code,
                      wrote |-> cred, resp |-> HtmlResponse(200)]
     ELSE /\ tokensByUser' = tokensByUser
          /\ last' = [kind |-> "callback", state |-> h.state, code |-> h.code,
                      wrote |-> Undefined,
                      resp |-> JsonResponse(500, [error |-> "OAuth exchange failed"])]
  /\ UNCHANGED <<server, now, seen, report>>

\* the token endpoint answers: on success the handler stores the credential
\* under state; the platform never accepts an empty code
authCallbackReturn(h, outcome, access_token, expires_in) ==
  /\ server = "part_001"
  /\ h \in inflight /\ h.kind = "callback"
  /\ h.code = "" => outcome # "ok"
  /\ Taken
  /\ inflight' = inflight \ {h}
  /\ IF outcome = "ok"
     THEN LET cred == [accessToken |-> access_token,
                       expiresAt |-> DateNow(now) + (expires_in * 1000)] IN
          /\ tokensByUser' = [tokensByUser EXCEPT ![h.state] = cred]
          /\ last' = [kind |-> "callback", state |-> h.state, code |-> h.code,
                      wrote |-> cred, resp |-> HtmlResponse(200)]
     ELSE /\ tokensByUser' = tokensByUser
          /\ last' = [kind |-> "callback", state |-> h.state, code |-> h.code,
                      wrote |-> Undefined,
                      resp |-> JsonResponse(500, [error |-> "OAuth exchange failed"])]
  /\ UNCHANGED <<server, now, seen, report>>

\* ------------------------------------------------------ the clock
Tick ==
  /\ Taken
  /\ now < MaxTicks
  /\ now' = now + 1
  /\ UNCHANGED <<server, tokensByUser, inflight, last, seen, report>>

\* ------------------------------------------------ the specification
Init ==
  /\ server \in Servers
  /\ now = 0
  /\ tokensByUser = [u \in Users |-> Undefined]      \* new Map()
  /\ inflight = {}
  /\ last = [kind |-> "none"]
  /\ seen = [kind |-> "none"]
  /\ report = [kind |-> "none"]

Next ==
  \/ Tick
  \/ TakeResponse
  \/ \E request \in Requests : handleMCPRequest(request)
  \/ \E h \in inflight, outcome \in Outcomes : checkUserAuth(h, outcome)
  \/ \E h \in inflight, outcome \in Outcomes, payload \in Payloads :
        executeTool(h, outcome, payload)
  \/ \E request \in Requests : handleMCPRequest_fixed(request)
  \/ \E request \in Requests : mcpPost(request)
  \/ \E h \in inflight, outcome \in Outcomes,
        payload \in UNION {GraphPayloads(n) : n \in CallNames} :
        mcpPostReturn(h, outcome, payload)
  \/ \E q \in CallbackQueries : authCallback(q)
  \/ \E h \in inflight, outcome \in Outcomes, access_token \in AccessTokens,
        expires_in \in ExpiresIn :
        authCallbackReturn(h, outcome, access_token, expires_in)

Spec == Init /\ [][Next]_vars

\* the same server with a client that keeps a response for comparison
NextKeeping == Next \/ KeepResponse

SpecKeeping == Init /\ [][NextKeeping]_vars

\* the same server with the OAuth callbacks of different users in flight at once
NextConcurrent == Next \/ \E q \in CallbackQueries : authCallbackConcurrent(q)

SpecConcurrent == Init /\ [][NextConcurrent]_vars

\* ------------------------------------- calculateSummary on its own
\* a cell of a row: a number, a numeric string, a non-numeric string, ""
Cells ==
  { [n |-> 2],
    [s |-> "3", parsed |-> Num(3)],
    [s |-> "abc", parsed |-> NaN],
    [s |-> "", parsed |-> NaN] }

\* a row has each of the members spend and ctr, or lacks it
RowSet == UNION {[D -> Cells] : D \in SUBSET {"spend", "ctr"}}

\* data.data of an insights answer: missing, or an array of rows
DataSet == {Undefined} \cup {[rows |-> r] : r \in UNION {[1..n -> RowSet] : n \in 0..MaxRows}}

\* the metrics argument
MetricLists == { <<>>, <<"spend">>, <<"ctr">>, <<"spend", "ctr">>, <<"cpm", "clicks">> }

InitSummary ==
  /\ server = "server.js"
  /\ now = 0
  /\ tokensByUser = [u \in Users |-> Undefined]
  /\ inflight = {}
  /\ last = [kind |-> "none"]
  /\ seen = [kind |-> "none"]
  /\ report \in [kind : {"called"}, data : DataSet, metrics : MetricLists]

\* const summary = this.calculateSummary(data.data, metrics)
callCalculateSummary ==
  /\ report.kind = "called"
  /\ report' = [kind |-> "returned", data |-> report.data, metrics |-> report.metrics,
                summary |-> calculateSummary(report.data, report.metrics)]
  /\ UNCHANGED <<server, now, tokensByUser, inflight, last, seen>>

NextSummary == callCalculateSummary

SpecSummary == InitSummary /\ [][NextSummary]_vars

\* ================================================================ claims
\* ------------------------------------------------ reading an exchange
ToolsCall(e) == e.kind = "mcp" /\ e.req.method = "tools/call"
WithParams(e) == ToolsCall(e) /\ ~IsUndefined(e.req.params)

\* a JSON-RPC error envelope: an error member and no result member
IsErrorEnvelope(resp) ==
  resp.transport = "json" /\ Has(resp.body, "error") /\ ~Has(resp.body, "result")
\* a successful JSON-RPC envelope: a result member and no error member
IsResultEnvelope(resp) ==
  resp.transport = "json" /\ Has(resp.body, "result") /\ ~Has(resp.body, "error")
\* the text of the first content item of a successful tools/call envelope
TextOf(resp) == resp.body.result.content[1].text

URLs == {"https://connect.businessmcp.com", "https://META_REDIRECT_URI"}
\* the text is an authentication prompt, and one of its parts is a URL
IsPromptWithURL(text) ==
  Has(text, "prompt") /\ \E i \in DOMAIN text.prompt : text.prompt[i] \in URLs

\* the handler's last network call ended with a non-2xx answer or a network error
LastCallFailed(e) ==
  e.calls # <<>> /\ e.calls[Len(e.calls)].outcome \in {"non2xx", "neterr"}

IsRefresh(call) == call.to = "graph/oauth/access_token"
IsToolCall(call) == call.to \in {"graph/object", "graph/me", "pipedream/actions/get",
                                 "pipedream/actions/list", "pipedream/actions/get_insights"}
RefreshCalls(e) == {i \in DOMAIN e.calls : IsRefresh(e.calls[i])}

\* the stored credential expires within 60 seconds of the time at, or has expired
NearExpiry(token, at) == ~IsUndefined(token) /\ token.expiresAt <= at + (60 * 1000)
\* the stored credential expires more than 60 seconds after the time at
Fresh(token, at) == ~IsUndefined(token) /\ token.expiresAt > at + (60 * 1000)

\* the user a request is made on behalf of: the user identifier of its headers,
\* and "default" without one (the default of GET /auth/meta)
OnBehalfOf(e) == IF e.caller = "undefined" THEN "default" ELSE e.caller

\* C1 (as claimed): a tools/call whose params.name is not a registered tool name is
\* answered with a JSON-RPC error envelope, whether or not the caller is
\* authenticated.
C1_UnknownToolIsError ==
  (WithParams(last) /\ last.req.params.name \notin RegisteredNames(server))
    => IsErrorEnvelope(last.resp)

\* C2 (as claimed): a tools/call whose authentication check fails is answered with
\* a successful envelope whose content is a text authentication prompt containing
\* an authorization URL, never with an error envelope.
C2_AuthFailureIsPrompt ==
  (ToolsCall(last) /\ last.auth = "failed")
    => /\ IsResultEnvelope(last.resp)
       /\ IsPromptWithURL(TextOf(last.resp))

\* C3 (as claimed): a tools/call by an authenticated user naming a registered tool
\* whose upstream call fails (non-2xx or network error) is answered with a
\* successful envelope whose content carries an error flag and a message.
C3_UpstreamFailureInBand ==
  (WithParams(last) /\ last.auth = "ok"
     /\ last.req.params.name \in RegisteredNames(server)
     /\ LastCallFailed(last) /\ IsToolCall(last.calls[Len(last.calls)]))
    => /\ IsResultEnvelope(last.resp)
       /\ Has(TextOf(last.resp), "json")
       /\ Has(TextOf(last.resp).json, "error") /\ TextOf(last.resp).json.error = TRUE
       /\ Has(TextOf(last.resp).json, "message")

\* C4 (as claimed): a tools/call for a user whose stored credential expires within
\* 60 seconds or has expired issues exactly one refresh exchange, before any
\* upstream tool call, the stored credential then has a strictly later expiresAt,
\* and no upstream call carries an expired access token.
C4_StaleTriggersOneRefresh ==
  (WithParams(last) /\ NearExpiry(last.token, last.at)
     /\ last.req.params.name \in RegisteredNames(server)
     /\ ~IsUndefined(last.req.params.arguments))
    => /\ Cardinality(RefreshCalls(last)) = 1
       /\ \A j \in DOMAIN last.calls :
            IsToolCall(last.calls[j]) =>
              /\ \E i \in RefreshCalls(last) : i < j
              /\ last.calls[j].token.expiresAt > last.calls[j].at
       /\ tokensByUser[last.userId].expiresAt > last.token.expiresAt

\* the /mcp handlers that take a step: the one that has just answered, and the one
\* that has just suspended at a network call
SteppedHandlers ==
  (IF last'.kind = "mcp" /\ last' # last THEN {last'} ELSE {})
    \cup {h \in inflight' \ inflight : h.kind = "mcp"}

\* C5: a step of a tools/call handler whose user's stored credential expired more
\* than 60 seconds after the request arrived issues no refresh exchange and
\* leaves the stored credential of that user as it was.
C5_FreshCredentialUntouched ==
  [][\A e \in SteppedHandlers :
        (e.req.method = "tools/call" /\ Fresh(e.token, e.at))
          => /\ RefreshCalls(e) = {}
             /\ tokensByUser'[e.userId] = tokensByUser[e.userId]]_vars

\* C5 witness: a tools/call with a fresh stored credential has called the Graph
\* API and been answered
C5_Witness ==
  /\ server = "part_001" /\ WithParams(last)
  /\ Fresh(last.token, last.at)
  /\ Len(last.calls) = 1 /\ last.calls[1].outcome = "ok"
  /\ IsResultEnvelope(last.resp)
  /\ tokensByUser[last.userId] = last.token

\* no credential is on file for the caller: the token store has no entry
\* (part_001); the request names no user, or the connector answers the auth
\* check with a non-2xx status (server.js)
NoCredentialOnFile(e) ==
  IF server = "part_001" THEN IsUndefined(e.token)
  ELSE e.calls = <<>> \/ e.calls[1].outcome = "non2xx"

ArrivingHandlers ==
  (IF last'.kind = "mcp" /\ last' # last /\ inflight' = inflight THEN {last'} ELSE {})
    \cup {h \in inflight' \ inflight : h.kind = "mcp" /\ InFlight("mcp") = {}}

\* C7 (as claimed): once an OAuth callback has stored a credential for user u, a
\* tools/call that arrives on behalf of u while that credential is fresh passes
\* the authentication step with the credential on file for u: no prompt, no
\* refresh, and the calls it issues carry that credential.
C7_CallbackThenCallPasses ==
  [][\A e \in ArrivingHandlers :
        (server = "part_001" /\ WithParams(e)
           /\ Fresh(tokensByUser[OnBehalfOf(e)], e.at))
          => /\ Has(e, "auth") => e.auth = "ok"
             /\ RefreshCalls(e) = {}
             /\ \A i \in DOMAIN e.calls :
                  e.calls[i].token = tokensByUser[OnBehalfOf(e)]]_vars

KnownMethods == {"initialize", "tools/list", "notifications/initialized", "tools/call"}

\* C8 (as claimed): a request whose method is none of the four known methods is
\* answered with the error envelope of code -32601 and message exactly
\* "Method not found", with the request's id.
C8_MethodNotFoundExact ==
  (last.kind = "mcp" /\ last.req.method \notin KnownMethods)
    => /\ last.resp.transport = "json"
       /\ last.resp.body = ErrorEnvelope(last.req.id, -32601, <<"Method not found">>)

\* C8 (amended): such a request is answered with the error envelope of code
\* -32601 with the request's id, whose message begins with "Method not found":
\* it is exactly that in server.js and part_001, and is followed by ": " and the
\* method in part_000.
C8_MethodNotFound ==
  (last.kind = "mcp" /\ last.req.method \notin KnownMethods)
    => /\ IsErrorEnvelope(last.resp)
       /\ last.resp.body.id = last.req.id
       /\ last.resp.body.error.code = -32601
       /\ last.resp.body.error.message =
            IF server = "part_000"
            THEN <<"Method not found", ": ", last.req.method>>
            ELSE <<"Method not found">>

\* C8 witness: a resources/list request has been answered "Method not found"
C8_Witness ==
  /\ last.kind = "mcp" /\ last.req.method = "resources/list"
  /\ last.req.id = "r2"
  /\ IsErrorEnvelope(last.resp)
  /\ last.resp.body.error.message[1] = "Method not found"

\* C9 (as claimed): notifications/initialized is acknowledged with no JSON-RPC
\* body: the response has neither a result nor an error member.
C9_NotificationHasNoBody ==
  (last.kind = "mcp" /\ last.req.method = "notifications/initialized")
    => /\ last.resp.transport # "none"
       /\ last.resp.transport = "json"
            => (~Has(last.resp.body, "result") /\ ~Has(last.resp.body, "error"))

\* dispatch raised an exception that no inner handler caught: params is absent,
\* or (part_001, which has no inner handler) arguments is absent or the upstream
\* call failed
UncaughtException(e) ==
  /\ ToolsCall(e)
  /\ \/ IsUndefined(e.req.params)
     \/ /\ server = "part_001" /\ e.auth = "ok"
        /\ e.req.params.name \in BranchNames
        /\ IsUndefined(e.req.params.arguments) \/ LastCallFailed(e)

\* C10 (as claimed): a request whose dispatch raises an exception that no inner
\* handler catches is answered with the error envelope of code -32603 whose
\* message begins "Internal error: ".
C10_UncaughtIsInternalError ==
  UncaughtException(last)
    => /\ IsErrorEnvelope(last.resp)
       /\ last.resp.body.error.code = -32603
       /\ last.resp.body.error.message[1] = "Internal error: "

\* ------------------------------------------------------------------ C11
\* the names of a tools/list result, in the order listed
ListedNames(resp) ==
  [i \in 1..Len(resp.body.result.tools) |-> resp.body.result.tools[i].name]

\* the tool names a tools/call of the running server has an executor for
ExecutableNames(srv) == IF srv = "part_001" THEN BranchNames ELSE SwitchNames

\* C11 (as claimed): whatever requests came before, a tools/list is answered
\* with exactly the tools meta_ads_get, meta_ads_query, meta_ads_report, in
\* that order and each once, and the names listed are the names tools/call
\* can execute
C11_ToolsListIsDeclaredSet ==
  (last.kind = "mcp" /\ last.req.method = "tools/list")
    => /\ IsResultEnvelope(last.resp)
       /\ ListedNames(last.resp) = <<"meta_ads_get", "meta_ads_query", "meta_ads_report">>
       /\ {ListedNames(last.resp)[i] : i \in DOMAIN ListedNames(last.resp)}
            = ExecutableNames(server)

\* ------------------------------------------------------------------ C12
\* the steps that answer an initialize or a tools/list
AnswersRepeatable ==
  /\ last' # last
  /\ last'.kind = "mcp"
  /\ last'.req.method \in Repeatable

\* C12: a step that answers an initialize or a tools/list leaves the token
\* store unchanged and issues no outbound call, and its response is identical
\* to the response kept from any earlier request with the same method and id,
\* whatever requests, callbacks and time came in between
C12_InitializeAndListIdempotent ==
  [][AnswersRepeatable
       => /\ tokensByUser' = tokensByUser
          /\ inflight' = inflight
          /\ last'.calls = <<>>
          /\ (seen.kind = "mcp" /\ seen.req = last'.req) => last'.resp = seen.resp]_vars

\* C12 witness: the response to a request is the response kept from an
\* earlier request with the same method and id, and since the client kept
\* that one the clock has advanced, a credential has been stored under
\* "default" and handlers are suspended at their network calls
C12_Witness ==
  /\ seen.kind = "mcp"
  /\ last.kind = "mcp"
  /\ last.req = seen.req
  /\ last.resp = seen.resp
  /\ last.at > 0
  /\ ~IsUndefined(tokensByUser["default"])
  /\ InFlight("callback") # {}

\* ------------------------------------------------------------------ C13
\* the value the summary aggregation counts a row's cell as: zero when the
\* member is missing or its value is not numeric
CountedAs(item, metric) ==
  IF ~Has(item, metric) THEN Num(0)
  ELSE LET cell == item[metric] IN
       IF Has(cell, "n") THEN Num(cell.n)
       ELSE IF cell.parsed.nan THEN Num(0) ELSE cell.parsed

RECURSIVE SumOver(_, _)
SumOver(rows, metric) ==
  IF rows = <<>> THEN Num(0)
  ELSE Plus(CountedAs(Head(rows), metric), SumOver(Tail(rows), metric))

MeanOver(rows, metric) == DivideBy(SumOver(rows, metric), Len(rows))

Requested(metrics) == {metrics[i] : i \in 1..Len(metrics)}

\* C13 (as claimed): calculateSummary returns one member per requested
\* metric, the mean over the rows for ctr, cpc and cpm and the sum over the
\* rows otherwise, with a missing or non-numeric value counted as zero, and
\* the empty object for an empty row set
C13_SummaryIsMeanOrSum ==
  report.kind = "returned"
    => IF IsUndefined(report.data) \/ report.data.rows = <<>>
       THEN DOMAIN report.summary = {}
       ELSE /\ DOMAIN report.summary = Requested(report.metrics)
            /\ \A m \in Requested(report.metrics) :
                  report.summary[m] = IF m \in {"ctr", "cpc", "cpm"}
                                      THEN MeanOver(report.data.rows, m)
                                      ELSE SumOver(report.data.rows, m)

\* ------------------------------------------------------------------ C14
\* the callback handlers that write their response in this step
ReturningCallbacks == {h \in inflight \ inflight' : h.kind = "callback"}

\* C14: a user's stored credential changes only in a step in which an OAuth
\* callback with state equal to that user returns; every /mcp step and every
\* callback of another user, successful or failed, leaves it as it is, with
\* callbacks and a request in flight together
C14_StoreFrame ==
  [][\A v \in Users :
        tokensByUser'[v] # tokensByUser[v]
          => \E h \in ReturningCallbacks : h.state = v]_vars

\* C14 witness: the callback with state u1 has just stored a credential while
\* a callback with state default and a /mcp request are in flight, and the
\* credential stored earlier under default is still a different one
C14_Witness ==
  /\ last.kind = "callback" /\ last.state = "u1"
  /\ ~IsUndefined(last.wrote)
  /\ tokensByUser["u1"] = last.wrote
  /\ ~IsUndefined(tokensByUser["default"])
  /\ tokensByUser["default"] # tokensByUser["u1"]
  /\ \E h \in InFlight("callback") : h.state = "default"
  /\ InFlight("mcp") # {}

\* ------------------------------------------------------------------ C15
\* a request whose tools/call, if it is one, carries params and arguments
CarriesArguments(e) ==
  ToolsCall(e) => (~IsUndefined(e.req.params) /\ ~IsUndefined(e.req.params.arguments))

\* C15 (as claimed): every POST /mcp is answered with one HTTP response on
\* every path through the handler; given that every outbound call returns or
\* fails, a run refutes it when a handler has finished, after its last
\* outbound call has ended, without having written a response (stated for
\* requests whose tools/call carries params and arguments)
C15_EveryRequestAnswered ==
  (last.kind = "mcp" /\ CarriesArguments(last))
    => /\ last.resp.transport # "none"
       /\ \A i \in DOMAIN last.calls : last.calls[i].outcome # "pending"

====
